---- MODULE Spec2Model ----
(***************************************************************************)
(* The notebook wcs-celestial-coordinates.ipynb as a state machine.        *)
(*                                                                         *)
(* The state is the kernel's namespace: the names the cells bind and the   *)
(* objects they are bound to.  A cell is run from the idle kernel; the     *)
(* cells of Section 1 (Method 1, Method 2) are modelled statement by       *)
(* statement, the others as one step that stops at the first statement     *)
(* that raises.  Cells may be run in any order and any number of times, as *)
(* a notebook allows; a cell that uses a name no earlier cell has bound    *)
(* ends with NameError and leaves what it has not reached untouched.       *)
(*                                                                         *)
(* Decimal literals are kept digit by digit (sign, integer part, sequence  *)
(* of fractional digits), since the literals of the notebook carry up to   *)
(* 17 significant digits.                                                  *)
(***************************************************************************)
EXTENDS Integers, Sequences, FiniteSets, TLC

VARIABLES
    pc,              \* "idle", or the next statement of the cell being run
    ns,              \* names bound to objects the model keeps opaque
    wcs_input_dict,  \* the keyword dictionary of Method 1, or NoObj
    wcs_helix_dict,  \* the WCS object of Method 1, or NoObj
    wcs_helix_list,  \* the WCS object of Method 2, or NoObj
    wcs_helix,       \* the WCS object read from the FITS header, or NoObj
    fig,             \* the current figure, or NoObj
    out              \* what the last cell run displayed or raised

vars == <<pc, ns, wcs_input_dict, wcs_helix_dict, wcs_helix_list, wcs_helix, fig, out>>

NoObj == [kind |-> "none"]

--------------------------------------------------------------------------
(* Decimal literals *)

Dec(neg, ip, frac) == [neg |-> neg, ip |-> ip, frac |-> frac]

RECURSIVE Pow10(_)
Pow10(k) == IF k = 0 THEN 1 ELSE 10 * Pow10(k - 1)

RECURSIVE DigitsToInt(_)
DigitsToInt(s) ==
    IF s = << >> THEN 0
    ELSE 10 * DigitsToInt(SubSeq(s, 1, Len(s) - 1)) + s[Len(s)]

\* The i-th fractional digit of d (0 beyond the digits the literal carries).
FracDigit(d, i) == IF i <= Len(d.frac) THEN d.frac[i] ELSE 0

\* |d| rounded half-up to k decimals, as <<integer part, the k decimals as a number>>.
RoundAbs(d, k) ==
    LET m  == DigitsToInt([i \in 1 .. k |-> FracDigit(d, i)])
        up == IF FracDigit(d, k + 1) >= 5 THEN m + 1 ELSE m
    IN  IF up = Pow10(k) THEN <<d.ip + 1, 0>> ELSE <<d.ip, up>>

\* The first n fractional digits of num / den, for 0 <= num < den, by long division.
RECURSIVE FracDigits(_, _, _)
FracDigits(num, den, n) ==
    IF n = 0 THEN << >>
    ELSE <<(10 * num) \div den>> \o FracDigits((10 * num) % den, den, n - 1)

\* A sequence of digits plus one in its last place (the carry out of the first
\* place is dropped: the callers' values stay below 1).
RECURSIVE IncDigits(_)
IncDigits(s) ==
    IF s = << >> THEN << >>
    ELSE IF s[Len(s)] < 9
         THEN [s EXCEPT ![Len(s)] = s[Len(s)] + 1]
         ELSE Append(IncDigits(SubSeq(s, 1, Len(s) - 1)), 0)

\* num / den (below 1) rounded half-up to n decimals, as its n fractional digits.
RoundedFraction(num, den, n) ==
    LET ds == FracDigits(num, den, n + 1)
        hd == SubSeq(ds, 1, n)
    IN  IF ds[n + 1] >= 5 THEN IncDigits(hd) ELSE hd

\* One degree is 3600 arcseconds.
ArcsecPerDegree == 3600

--------------------------------------------------------------------------
(* astropy.wcs.WCS, as far as the notebook uses and documents it *)

\* Python's float(): the value of a literal, without trailing fractional zeros.
RECURSIVE StripZeros(_)
StripZeros(s) ==
    IF s # << >> /\ s[Len(s)] = 0 THEN StripZeros(SubSeq(s, 1, Len(s) - 1)) ELSE s

ToFloat(d) == Dec(d.neg /\ (d.ip # 0 \/ StripZeros(d.frac) # << >>), d.ip, StripZeros(d.frac))

\* WCS(naxis=2): an empty WCS on two axes. Its NAXIS values are 0; the other
\* attributes hold the library's defaults until they are assigned.
WCS_naxis2 ==
    [kind     |-> "WCS",
     crpix    |-> <<Dec(FALSE, 0, << >>), Dec(FALSE, 0, << >>)>>,
     crval    |-> <<Dec(FALSE, 0, << >>), Dec(FALSE, 0, << >>)>>,
     cdelt    |-> <<Dec(FALSE, 1, << >>), Dec(FALSE, 1, << >>)>>,
     ctype    |-> <<"", "">>,
     cunit    |-> <<"", "">>,
     naxis    |-> <<0, 0>>,
     assigned |-> {}]

\* WCS(header): the keywords of a dictionary-like header, read per axis.
WCS_header(h) ==
    [kind     |-> "WCS",
     crpix    |-> <<ToFloat(h.CRPIX1), ToFloat(h.CRPIX2)>>,
     crval    |-> <<ToFloat(h.CRVAL1), ToFloat(h.CRVAL2)>>,
     cdelt    |-> <<ToFloat(h.CDELT1), ToFloat(h.CDELT2)>>,
     ctype    |-> <<h.CTYPE1, h.CTYPE2>>,
     cunit    |-> <<h.CUNIT1, h.CUNIT2>>,
     naxis    |-> <<h.NAXIS1, h.NAXIS2>>,
     assigned |-> {}]

\* w.wcs.<attr> = [v1, v2]: the attribute takes the list, as floats; NAXIS is untouched.
SetFloats(w, attr, v) ==
    [w EXCEPT ![attr] = <<ToFloat(v[1]), ToFloat(v[2])>>,
              !.assigned = @ \cup {attr}]

\* w.wcs.<attr> = [s1, s2] for the string attributes.
SetStrings(w, attr, v) ==
    [w EXCEPT ![attr] = v, !.assigned = @ \cup {attr}]

\* The setter with the slip of leaving NAXIS as it was.
SetArrayShapeOf_keepsNaxis(w, shape) ==
    [w EXCEPT !.assigned = @ \cup {"array_shape"}]

\* w.array_shape = shape: NAXIS takes the shape, in reverse (numpy order).
SetArrayShapeOf(w, shape) ==
    [w EXCEPT !.naxis = <<shape[2], shape[1]>>,
              !.assigned = @ \cup {"array_shape"}]

--------------------------------------------------------------------------
(* The literals of the notebook *)

\* The dictionary with the increment the markdown cell quotes, 0.002778.
WcsInputDict_quotedCdelt ==
    [CTYPE1 |-> "RA---TAN",
     CUNIT1 |-> "deg",
     CDELT1 |-> Dec(TRUE, 0, <<0, 0, 2, 7, 7, 8>>),
     CRPIX1 |-> Dec(FALSE, 1, << >>),
     CRVAL1 |-> Dec(FALSE, 337, <<5, 2, 0, 2, 8, 0, 8>>),
     NAXIS1 |-> 1024,
     CTYPE2 |-> "DEC--TAN",
     CUNIT2 |-> "deg",
     CDELT2 |-> Dec(FALSE, 0, <<0, 0, 2, 7, 7, 8>>),
     CRPIX2 |-> Dec(FALSE, 1, << >>),
     CRVAL2 |-> Dec(TRUE, 20, <<8, 3, 3, 3, 3, 3, 0, 5, 9, 9, 9, 9, 9, 9, 8>>),
     NAXIS2 |-> 1024]

WcsInputDict ==
    [CTYPE1 |-> "RA---TAN",
     CUNIT1 |-> "deg",
     CDELT1 |-> Dec(TRUE, 0, <<0, 0, 0, 2, 7, 7, 7, 7, 7, 7, 7, 7, 8>>),
     CRPIX1 |-> Dec(FALSE, 1, << >>),
     CRVAL1 |-> Dec(FALSE, 337, <<5, 2, 0, 2, 8, 0, 8>>),
     NAXIS1 |-> 1024,
     CTYPE2 |-> "DEC--TAN",
     CUNIT2 |-> "deg",
     CDELT2 |-> Dec(FALSE, 0, <<0, 0, 0, 2, 7, 7, 7, 7, 7, 7, 7, 7, 8>>),
     CRPIX2 |-> Dec(FALSE, 1, << >>),
     CRVAL2 |-> Dec(TRUE, 20, <<8, 3, 3, 3, 3, 3, 0, 5, 9, 9, 9, 9, 9, 9, 8>>),
     NAXIS2 |-> 1024]

ListCrpix == <<Dec(FALSE, 1, << >>), Dec(FALSE, 1, << >>)>>

\* The list with the declination shortened to -20.83333306.
ListCrval_shortDec ==
    <<Dec(FALSE, 337, <<5, 2, 0, 2, 8, 0, 8>>),
      Dec(TRUE, 20, <<8, 3, 3, 3, 3, 3, 0, 6>>)>>

ListCrval ==
    <<Dec(FALSE, 337, <<5, 2, 0, 2, 8, 0, 8>>),
      Dec(TRUE, 20, <<8, 3, 3, 3, 3, 3, 0, 5, 9, 9, 9, 9, 9, 9, 8>>)>>

ListCunit == <<"deg", "deg">>

ListCtype == <<"RA---TAN", "DEC--TAN">>

ListCdelt ==
    <<Dec(TRUE, 0, <<0, 0, 0, 2, 7, 7, 7, 7, 7, 7, 7, 7, 8>>),
      Dec(FALSE, 0, <<0, 0, 0, 2, 7, 7, 7, 7, 7, 7, 7, 7, 8>>)>>

ArrayShape == <<1024, 1024>>

\* The WCS keywords of the downloaded FITS header are not part of the notebook.
WCS_fits == [kind |-> "WCS", from |-> "FITS header"]

\* ax.arrow(337, -21.2, 0, 0.1, ..., transform=ax.get_transform("icrs"))
ScaleArrow ==
    [kind  |-> "arrow",
     x     |-> Dec(FALSE, 337, << >>),
     y     |-> Dec(TRUE, 21, <<2>>),
     dx    |-> Dec(FALSE, 0, << >>),
     dy    |-> Dec(FALSE, 0, <<1>>),
     frame |-> "icrs"]

\* plt.text(337.05, -21.18, "0.1 deg", ..., rotation=90, transform=ax.get_transform("icrs"))
ScaleText ==
    [kind  |-> "text",
     x     |-> Dec(FALSE, 337, <<0, 5>>),
     y     |-> Dec(TRUE, 21, <<1, 8>>),
     s     |-> "0.1 deg",
     frame |-> "icrs"]

--------------------------------------------------------------------------
(* The cells *)

Ok == [kind |-> "ok"]
NameError(name) == [kind |-> "NameError", name |-> name]
Shown(obj) == [kind |-> "display", value |-> obj]

Init ==
    /\ pc = "idle"
    /\ ns = {}
    /\ wcs_input_dict = NoObj
    /\ wcs_helix_dict = NoObj
    /\ wcs_helix_list = NoObj
    /\ wcs_helix = NoObj
    /\ fig = NoObj
    /\ out = Ok

\* from astropy.wcs import WCS; from astropy.io import fits; import matplotlib.pyplot as plt
Imports ==
    /\ pc = "idle"
    /\ ns' = ns \cup {"WCS", "fits", "plt"}
    /\ out' = Ok
    /\ UNCHANGED <<pc, wcs_input_dict, wcs_helix_dict, wcs_helix_list, wcs_helix, fig>>

\* wcs_input_dict = {...}
M1_dict ==
    /\ pc = "idle"
    /\ wcs_input_dict' = WcsInputDict
    /\ pc' = "m1_wcs"
    /\ UNCHANGED <<ns, wcs_helix_dict, wcs_helix_list, wcs_helix, fig, out>>

\* wcs_helix_dict = WCS(wcs_input_dict)
M1_wcs ==
    /\ pc = "m1_wcs"
    /\ pc' = "idle"
    /\ IF "WCS" \in ns
       THEN wcs_helix_dict' = WCS_header(wcs_input_dict) /\ out' = Ok
       ELSE out' = NameError("WCS") /\ UNCHANGED wcs_helix_dict
    /\ UNCHANGED <<ns, wcs_input_dict, wcs_helix_list, wcs_helix, fig>>

\* wcs_helix_dict  # To check output
ShowDict ==
    /\ pc = "idle"
    /\ out' = IF wcs_helix_dict = NoObj THEN NameError("wcs_helix_dict")
              ELSE Shown(wcs_helix_dict)
    /\ UNCHANGED <<pc, ns, wcs_input_dict, wcs_helix_dict, wcs_helix_list, wcs_helix, fig>>

\* wcs_helix_list = WCS(naxis=2)
M2_new ==
    /\ pc = "idle"
    /\ IF "WCS" \in ns
       THEN wcs_helix_list' = WCS_naxis2 /\ pc' = "m2_crpix" /\ UNCHANGED out
       ELSE out' = NameError("WCS") /\ UNCHANGED <<wcs_helix_list, pc>>
    /\ UNCHANGED <<ns, wcs_input_dict, wcs_helix_dict, wcs_helix, fig>>

\* wcs_helix_list.wcs.crpix = [1, 1]
M2_crpix ==
    /\ pc = "m2_crpix"
    /\ wcs_helix_list' = SetFloats(wcs_helix_list, "crpix", ListCrpix)
    /\ pc' = "m2_crval"
    /\ UNCHANGED <<ns, wcs_input_dict, wcs_helix_dict, wcs_helix, fig, out>>

\* wcs_helix_list.wcs.crval = [337.5202808, -20.833333059999998]
M2_crval ==
    /\ pc = "m2_crval"
    /\ wcs_helix_list' = SetFloats(wcs_helix_list, "crval", ListCrval)
    /\ pc' = "m2_cunit"
    /\ UNCHANGED <<ns, wcs_input_dict, wcs_helix_dict, wcs_helix, fig, out>>

\* wcs_helix_list.wcs.cunit = ["deg", "deg"]
M2_cunit ==
    /\ pc = "m2_cunit"
    /\ wcs_helix_list' = SetStrings(wcs_helix_list, "cunit", ListCunit)
    /\ pc' = "m2_ctype"
    /\ UNCHANGED <<ns, wcs_input_dict, wcs_helix_dict, wcs_helix, fig, out>>

\* wcs_helix_list.wcs.ctype = ["RA---TAN", "DEC--TAN"]
M2_ctype ==
    /\ pc = "m2_ctype"
    /\ wcs_helix_list' = SetStrings(wcs_helix_list, "ctype", ListCtype)
    /\ pc' = "m2_cdelt"
    /\ UNCHANGED <<ns, wcs_input_dict, wcs_helix_dict, wcs_helix, fig, out>>

\* wcs_helix_list.wcs.cdelt = [-0.0002777777778, 0.0002777777778]
M2_cdelt ==
    /\ pc = "m2_cdelt"
    /\ wcs_helix_list' = SetFloats(wcs_helix_list, "cdelt", ListCdelt)
    /\ pc' = "idle"
    /\ out' = Ok
    /\ UNCHANGED <<ns, wcs_input_dict, wcs_helix_dict, wcs_helix, fig>>

\* wcs_helix_list  # To check output
ShowList ==
    /\ pc = "idle"
    /\ out' = IF wcs_helix_list = NoObj THEN NameError("wcs_helix_list")
              ELSE Shown(wcs_helix_list)
    /\ UNCHANGED <<pc, ns, wcs_input_dict, wcs_helix_dict, wcs_helix_list, wcs_helix, fig>>

\* wcs_helix_list.array_shape = [1024, 1024]
SetArrayShape ==
    /\ pc = "idle"
    /\ IF wcs_helix_list = NoObj
       THEN out' = NameError("wcs_helix_list") /\ UNCHANGED wcs_helix_list
       ELSE wcs_helix_list' = SetArrayShapeOf(wcs_helix_list, ArrayShape) /\ out' = Ok
    /\ UNCHANGED <<pc, ns, wcs_input_dict, wcs_helix_dict, wcs_helix, fig>>

\* wcs_helix_list (the cell after array_shape is assigned)
ShowListAgain ==
    /\ pc = "idle"
    /\ out' = IF wcs_helix_list = NoObj THEN NameError("wcs_helix_list")
              ELSE Shown(wcs_helix_list)
    /\ UNCHANGED <<pc, ns, wcs_input_dict, wcs_helix_dict, wcs_helix_list, wcs_helix, fig>>

Section1 ==
    \/ Imports
    \/ M1_dict \/ M1_wcs \/ ShowDict
    \/ M2_new \/ M2_crpix \/ M2_crval \/ M2_cunit \/ M2_ctype \/ M2_cdelt
    \/ ShowList \/ SetArrayShape \/ ShowListAgain

\* header_data_unit_list = fits.open("https://...fits"): the download may fail
FitsOpen ==
    /\ pc = "idle"
    /\ IF "fits" \notin ns
       THEN out' = NameError("fits") /\ UNCHANGED ns
       ELSE \/ ns' = ns \cup {"header_data_unit_list"} /\ out' = Ok
            \/ out' = [kind |-> "URLError"] /\ UNCHANGED ns
    /\ UNCHANGED <<pc, wcs_input_dict, wcs_helix_dict, wcs_helix_list, wcs_helix, fig>>

\* header_data_unit_list.info()
FitsInfo ==
    /\ pc = "idle"
    /\ out' = IF "header_data_unit_list" \in ns THEN Shown([kind |-> "HDU summary"])
              ELSE NameError("header_data_unit_list")
    /\ UNCHANGED <<pc, ns, wcs_input_dict, wcs_helix_dict, wcs_helix_list, wcs_helix, fig>>

\* image = header_data_unit_list[0].data; header = header_data_unit_list[0].header
ImageHeader ==
    /\ pc = "idle"
    /\ IF "header_data_unit_list" \in ns
       THEN ns' = ns \cup {"image", "header"} /\ out' = Ok
       ELSE out' = NameError("header_data_unit_list") /\ UNCHANGED ns
    /\ UNCHANGED <<pc, wcs_input_dict, wcs_helix_dict, wcs_helix_list, wcs_helix, fig>>

\* header
ShowHeader ==
    /\ pc = "idle"
    /\ out' = IF "header" \in ns THEN Shown([kind |-> "FITS header"])
              ELSE NameError("header")
    /\ UNCHANGED <<pc, ns, wcs_input_dict, wcs_helix_dict, wcs_helix_list, wcs_helix, fig>>

\* wcs_helix = WCS(header)
WcsFromHeader ==
    /\ pc = "idle"
    /\ IF "WCS" \notin ns
       THEN out' = NameError("WCS") /\ UNCHANGED wcs_helix
       ELSE IF "header" \notin ns
            THEN out' = NameError("header") /\ UNCHANGED wcs_helix
            ELSE wcs_helix' = WCS_fits /\ out' = Ok
    /\ UNCHANGED <<pc, ns, wcs_input_dict, wcs_helix_dict, wcs_helix_list, fig>>

\* wcs_helix
ShowWcsHelix ==
    /\ pc = "idle"
    /\ out' = IF wcs_helix = NoObj THEN NameError("wcs_helix") ELSE Shown(wcs_helix)
    /\ UNCHANGED <<pc, ns, wcs_input_dict, wcs_helix_dict, wcs_helix_list, wcs_helix, fig>>

\* plt.figure(...): a new, empty current figure.
NewFigure ==
    [kind |-> "figure", projection |-> "none", image |-> FALSE, xlabel |-> "",
     ylabel |-> "", overlay |-> "none", arrow |-> NoObj, text |-> NoObj]

\* plt.subplot(projection=wcs_helix)
Subplot(f) == [f EXCEPT !.projection = "wcs_helix"]

\* plt.imshow(image, ...): on the current axes, rectilinear ones when there are none.
Imshow(f) ==
    [f EXCEPT !.image = TRUE,
              !.projection = IF @ = "none" THEN "rectilinear" ELSE @]

\* plt.xlabel(r"RA"); plt.ylabel(r"Dec")
Labels(f) == [f EXCEPT !.xlabel = "RA", !.ylabel = "Dec"]

\* overlay = ax.get_coords_overlay(frame); overlay.grid(...)
Overlay(f, frame) == [f EXCEPT !.overlay = frame]

\* ax.arrow(...), plt.text(...)
Arrow(f, a) == [f EXCEPT !.arrow = a]
Text(f, t) == [f EXCEPT !.text = t]

\* fig = plt.figure(figsize=(10, 10)); plt.imshow(image, origin="lower", cmap="cividis")
PlotPixels ==
    /\ pc = "idle"
    /\ IF "plt" \notin ns
       THEN out' = NameError("plt") /\ UNCHANGED fig
       ELSE IF "image" \notin ns
            THEN out' = NameError("image") /\ fig' = NewFigure
            ELSE out' = Ok /\ fig' = Imshow(NewFigure)
    /\ UNCHANGED <<pc, ns, wcs_input_dict, wcs_helix_dict, wcs_helix_list, wcs_helix>>

\* The figure with WCS axes, the image, the labels and a coordinate grid overlay.
PlotOverlay(frame) ==
    /\ pc = "idle"
    /\ IF "plt" \notin ns
       THEN out' = NameError("plt") /\ UNCHANGED fig
       ELSE IF wcs_helix = NoObj
            THEN out' = NameError("wcs_helix") /\ fig' = NewFigure
            ELSE IF "image" \notin ns
                 THEN out' = NameError("image") /\ fig' = Subplot(NewFigure)
                 ELSE out' = Ok
                      /\ fig' = Overlay(Labels(Imshow(Subplot(NewFigure))), frame)
    /\ UNCHANGED <<pc, ns, wcs_input_dict, wcs_helix_dict, wcs_helix_list, wcs_helix>>

\* overlay = ax.get_coords_overlay("icrs")
PlotICRS == PlotOverlay("icrs")

\* Exercise: overlay = ax.get_coords_overlay("galactic")
PlotGalactic == PlotOverlay("galactic")

\* Section 3: the scale marker, its label, the image and the axis labels.
PlotScaleMarker ==
    /\ pc = "idle"
    /\ IF "plt" \notin ns
       THEN out' = NameError("plt") /\ UNCHANGED fig
       ELSE IF wcs_helix = NoObj
            THEN out' = NameError("wcs_helix") /\ fig' = NewFigure
            ELSE IF "image" \notin ns
                 THEN out' = NameError("image")
                      /\ fig' = Text(Arrow(Subplot(NewFigure), ScaleArrow), ScaleText)
                 ELSE out' = Ok
                      /\ fig' = Labels(Imshow(Text(Arrow(Subplot(NewFigure), ScaleArrow),
                                                   ScaleText)))
    /\ UNCHANGED <<pc, ns, wcs_input_dict, wcs_helix_dict, wcs_helix_list, wcs_helix>>

Section2 ==
    \/ FitsOpen \/ FitsInfo \/ ImageHeader \/ ShowHeader
    \/ WcsFromHeader \/ ShowWcsHelix
    \/ PlotPixels \/ PlotICRS \/ PlotGalactic

Section3 == PlotScaleMarker

Next == Section1 \/ Section2 \/ Section3

Spec == Init /\ [][Next]_vars

--------------------------------------------------------------------------
(* Properties *)

\* The kernel is idle and both Method 1 and Method 2 have built their object.
BothBuilt == pc = "idle" /\ wcs_helix_dict # NoObj /\ wcs_helix_list # NoObj

\* C7: once the Method 1 cell and the Method 2 cell have both run to their end,
\* the object built from the dictionary and the object built from the lists
\* have the same reference pixel, reference sky value, pixel increment, axis
\* types and units, on two axes each.
C7_PathsAgree ==
    BothBuilt =>
        /\ wcs_helix_list.crpix = wcs_helix_dict.crpix
        /\ wcs_helix_list.crval = wcs_helix_dict.crval
        /\ wcs_helix_list.cdelt = wcs_helix_dict.cdelt
        /\ wcs_helix_list.ctype = wcs_helix_dict.ctype
        /\ wcs_helix_list.cunit = wcs_helix_dict.cunit
        /\ Len(wcs_helix_list.naxis) = Len(wcs_helix_dict.naxis)

\* Both objects are built, and Method 2's has not had its array_shape assigned.
C7_Witness ==
    /\ BothBuilt
    /\ "array_shape" \notin wcs_helix_list.assigned
    /\ wcs_helix_list.crval = ListCrval

\* The increment of one axis is 1 arcsec: 1/3600 degree, rounded to the decimals
\* the literal carries.
OneArcsec(d) ==
    d.ip = 0 /\ d.frac = RoundedFraction(1, ArcsecPerDegree, Len(d.frac))

C10_NaxisOrder ==
    wcs_helix_list # NoObj =>
        IF "array_shape" \in wcs_helix_list.assigned
        THEN wcs_helix_list.naxis = <<1024, 1024>>
        ELSE wcs_helix_list.naxis = <<0, 0>>

\* crpix, crval, cunit, ctype and cdelt are assigned, array_shape is not, and the
\* object has been displayed.
C10_Witness ==
    /\ wcs_helix_list # NoObj
    /\ wcs_helix_list.assigned = {"crpix", "crval", "cunit", "ctype", "cdelt"}
    /\ out = Shown(wcs_helix_list)
    /\ wcs_helix_list.naxis = <<0, 0>>

\* A literal with at most two decimals, in hundredths of a degree.
Hundredths(d) ==
    LET m == d.ip * 100 + FracDigit(d, 1) * 10 + FracDigit(d, 2)
    IN  IF d.neg THEN 0 - m ELSE m

\* ax.arrow(x, y, dx, dy): the line runs from (x, y) to (x + dx, y + dy).
ArrowStart(a) == <<Hundredths(a.x), Hundredths(a.y)>>
ArrowEnd(a) == <<Hundredths(a.x) + Hundredths(a.dx), Hundredths(a.y) + Hundredths(a.dy)>>

\* Twice the midpoint of the line (the sum of its two ends).
ArrowCenterTwice(a) ==
    <<ArrowStart(a)[1] + ArrowEnd(a)[1], ArrowStart(a)[2] + ArrowEnd(a)[2]>>

\* The square of the length of the line, in hundredths of a degree squared.
ArrowLengthSquared(a) ==
    (ArrowEnd(a)[1] - ArrowStart(a)[1]) * (ArrowEnd(a)[1] - ArrowStart(a)[1])
    + (ArrowEnd(a)[2] - ArrowStart(a)[2]) * (ArrowEnd(a)[2] - ArrowStart(a)[2])

\* The current figure carries the scale marker.
HasScaleMarker == fig # NoObj /\ fig.arrow # NoObj

\* C11: the scale marker is a line of length 0.1 degrees with no horizontal
\* component (dx = 0, dy = 0.1), drawn in the ICRS frame, and its center is at
\* (RA, Dec) = (337, -21.2) degrees.
C11_ScaleMarker ==
    HasScaleMarker =>
        /\ Hundredths(fig.arrow.dx) = 0
        /\ Hundredths(fig.arrow.dy) = 10
        /\ ArrowLengthSquared(fig.arrow) = 10 * 10
        /\ fig.arrow.frame = "icrs"
        /\ ArrowCenterTwice(fig.arrow) = <<2 * 33700, 2 * (0 - 2120)>>

====
